---- MODULE Spec2Model ----
(***************************************************************************)
(* Model of the Split Audio node (nodes/SplitAudio/SplitAudio.node.ts):    *)
(* SplitAudio.execute as a process that advances from one await to the     *)
(* next, the filesystem it works on, and the arithmetic of the split plan. *)
(*                                                                         *)
(* Numbers are JavaScript numbers restricted to the non-negative rationals *)
(* (kept as reduced fractions), Infinity and NaN.  Rounding error of       *)
(* IEEE-754 doubles is not modelled.                                       *)
(***************************************************************************)
EXTENDS Integers, Sequences, FiniteSets, TLC

VARIABLES rs, fs, now, plan

vars == <<rs, fs, now, plan>>

----------------------------------------------------------------------------
(* Bounds *)

\* items handed to one run of execute()
MaxItems == 2
\* segment files the engine writes for one item
MaxSegs == 2
\* largest value Date.now() takes
MaxClock == 1
\* filesystem deletions that fail during one run
MaxFaults == 1
\* segment files of one item in the specification of the listing order
MaxSortSet == 3
MaxStreamChunk == 2

----------------------------------------------------------------------------
(* JavaScript numbers *)

Fin(n, d) == [k |-> "fin", n |-> n, d |-> d]
Zero == Fin(0, 1)
One == Fin(1, 1)
Infinity == [k |-> "inf", n |-> 0, d |-> 1]
NaN == [k |-> "nan", n |-> 0, d |-> 1]
Absent == [k |-> "absent", n |-> 0, d |-> 1]

RECURSIVE GCD(_, _)
GCD(a, b) == IF b = 0 THEN a ELSE GCD(b, a % b)

Reduce(n, d) == IF n = 0 THEN Zero ELSE Fin(n \div GCD(n, d), d \div GCD(n, d))

\* The truthiness test of `x || 0`, `x ? a : b` and `!x` on a number or an
\* absent property.
Truthy(x) == x.k = "inf" \/ (x.k = "fin" /\ x.n # 0)

\* a * b
JsMul(a, b) ==
    IF a.k = "nan" \/ b.k = "nan" THEN NaN
    ELSE IF a.k = "inf" \/ b.k = "inf"
         THEN (IF a = Zero \/ b = Zero THEN NaN ELSE Infinity)
    ELSE Reduce(a.n * b.n, a.d * b.d)

\* a / b
JsDiv(a, b) ==
    IF a.k = "nan" \/ b.k = "nan" THEN NaN
    ELSE IF a.k = "inf" THEN (IF b.k = "inf" THEN NaN ELSE Infinity)
    ELSE IF b.k = "inf" THEN Zero
    ELSE IF b.n = 0 THEN (IF a.n = 0 THEN NaN ELSE Infinity)
    ELSE Reduce(a.n * b.d, a.d * b.n)

\* a < b for b = 1: false for NaN and Infinity
JsLessThanOne(a) == a.k = "fin" /\ a.n < a.d

\* Math.round: nearest integer, halves towards +Infinity
MathRound(a) ==
    IF a.k = "fin" THEN Fin((2 * a.n + a.d) \div (2 * a.d), 1) ELSE a

\* String(x) of a number, up to the decimal point: the decimal digits of the
\* integer part ("Infinity" and "NaN" have no leading digit).
RECURSIVE ToDigits(_)
ToDigits(n) == IF n < 10 THEN <<n>> ELSE Append(ToDigits(n \div 10), n % 10)

JsString(x) == IF x.k = "fin" THEN ToDigits(x.n \div x.d) ELSE <<>>

\* parseInt(s): the value of the leading digits, NaN when there is none
RECURSIVE FromDigits(_)
FromDigits(s) ==
    IF Len(s) = 0 THEN 0
    ELSE 10 * FromDigits(SubSeq(s, 1, Len(s) - 1)) + s[Len(s)]

ParseInt(s) == IF Len(s) = 0 THEN NaN ELSE Fin(FromDigits(s), 1)

----------------------------------------------------------------------------
(* The split plan *)

\* getMediaInfo with the metadata bitrate ignored
GetMediaInfoDerived(meta, stat) ==
    LET duration == IF Truthy(meta.duration) THEN meta.duration ELSE Zero
    IN  IF stat = Absent
        THEN [ok |-> FALSE, duration |-> duration, bitrate |-> Zero]
        ELSE [ok |-> TRUE, duration |-> duration,
              bitrate |-> MathRound(JsDiv(JsMul(stat, Fin(8, 1)), duration))]

\* The ffprobe callback of getMediaInfo.  meta is metadata.format, stat is
\* the byte size fs.statSync(filePath) returns, or Absent when it throws.
GetMediaInfo(meta, stat) ==
    LET duration == IF Truthy(meta.duration) THEN meta.duration ELSE Zero
        bitrate0 == IF Truthy(meta.bit_rate)
                    THEN ParseInt(JsString(meta.bit_rate)) ELSE Zero
    IN  IF Truthy(bitrate0)
        THEN [ok |-> TRUE, duration |-> duration, bitrate |-> bitrate0]
        ELSE IF stat = Absent
        THEN [ok |-> FALSE, duration |-> duration, bitrate |-> bitrate0]
        ELSE [ok |-> TRUE, duration |-> duration,
              bitrate |-> MathRound(JsDiv(JsMul(stat, Fin(8, 1)), duration))]

\* chunkDurationSeconds without the minimum
ChunkDurationUnclamped(chunkSizeMB, bitrate) ==
    LET chunkSizeBytes == JsMul(JsMul(chunkSizeMB, Fin(1024, 1)), Fin(1024, 1))
    IN  JsDiv(JsMul(chunkSizeBytes, Fin(8, 1)), bitrate)

\* chunkDurationSeconds of a chunk size in MB and a bitrate
ChunkDuration(chunkSizeMB, bitrate) ==
    LET chunkSizeBytes == JsMul(JsMul(chunkSizeMB, Fin(1024, 1)), Fin(1024, 1))
        chunkDurationSeconds == JsDiv(JsMul(chunkSizeBytes, Fin(8, 1)), bitrate)
    IN  IF JsLessThanOne(chunkDurationSeconds) THEN One ELSE chunkDurationSeconds

\* The plan of one item: what getMediaInfo resolves to (ok is false when it
\* rejects) and the segment duration handed to the engine.
SplitPlan(meta, stat, chunkSizeMB) ==
    LET info == GetMediaInfo(meta, stat)
    IN  [ok |-> info.ok, bitrate |-> info.bitrate,
         chunkDur |-> IF info.ok THEN ChunkDuration(chunkSizeMB, info.bitrate)
                      ELSE NaN]

----------------------------------------------------------------------------
(* Paths and the filesystem *)

\* A path: loc is the directory ("user": where the caller keeps files,
\* "tmp": os.tmpdir(), "scratch": the directory n8n-split-audio-<ts> inside
\* os.tmpdir()); the file name is <tmpPrefix><stem>[_<prefix>_<idx>]<dot ext>,
\* where tmpPrefix is n8n-audio-split-<tmpTs>- when tmpTs >= 0 and idx is a
\* string of digits.  kind "dir" is the scratch directory itself.
FilePath(loc, ts, tmpTs, stem, prefix, idx, ext) ==
    [kind |-> "file", loc |-> loc, ts |-> ts, tmpTs |-> tmpTs, stem |-> stem,
     prefix |-> prefix, idx |-> idx, ext |-> ext]

NoPath == [kind |-> "none", loc |-> "", ts |-> 0, tmpTs |-> 0 - 1, stem |-> "",
           prefix |-> "", idx |-> <<>>, ext |-> ""]

UserFile(stem, ext) == FilePath("user", 0, 0 - 1, stem, "", <<>>, ext)

\* path.join(os.tmpdir(), `n8n-audio-split-${Date.now()}-${fileName}`)
TempInputFile(t, stem, ext) == FilePath("tmp", 0, t, stem, "", <<>>, ext)

\* path.join(os.tmpdir(), `n8n-split-audio-${Date.now()}`)
ScratchDir(t) == [kind |-> "dir", loc |-> "scratch", ts |-> t, tmpTs |-> 0 - 1,
                  stem |-> "", prefix |-> "", idx |-> <<>>, ext |-> ""]

\* the files inside a scratch directory
FilesIn(files, dir) ==
    {f \in files : f.kind = "file" /\ f.loc = "scratch" /\ f.ts = dir.ts}

\* String.prototype.toLowerCase on an extension
ToLowerCase(ext) ==
    CASE ext = "MP3" -> "mp3"
      [] ext = "WAV" -> "wav"
      [] ext = "M4A" -> "m4a"
      [] OTHER -> ext

\* path.parse(filePath): name is the file name without its extension (here
\* the pair tmpTs, stem), ext the extension
PathParse(p) == [tmpTs |-> p.tmpTs, stem |-> p.stem, ext |-> p.ext]

\* %d: the index without zero padding
PadNone(i) == ToDigits(i)

\* %03d of the segment muxer
Pad3(i) ==
    LET ds == ToDigits(i)
    IN  IF Len(ds) >= 3 THEN ds
        ELSE [j \in 1..3 |-> IF j <= 3 - Len(ds) THEN 0 ELSE ds[j - (3 - Len(ds))]]

\* path.join(tmpDir, `${fileBaseName}_${outputPrefix}_%03d${outputExtension}`)
\* instantiated for segment number i
SegmentPath(dir, base, outputPrefix, i, outputExtension) ==
    FilePath("scratch", dir.ts, base.tmpTs, base.stem, outputPrefix, Pad3(i),
             outputExtension)

\* file.startsWith(`${fileBaseName}_${outputPrefix}_`)
StartsWith(f, base, outputPrefix) ==
    f.tmpTs = base.tmpTs /\ f.stem = base.stem /\ f.prefix = outputPrefix

\* order of the code units that can follow the prefix in a segment name
ExtOrder(ext) ==
    CASE ext = "M4A" -> 1 [] ext = "MP3" -> 2 [] ext = "WAV" -> 3
      [] ext = "m4a" -> 4 [] ext = "mp3" -> 5 [] ext = "wav" -> 6
      [] OTHER -> 0

RECURSIVE LexLess(_, _)
LexLess(a, b) ==
    IF Len(a) = 0 THEN Len(b) > 0
    ELSE IF Len(b) = 0 THEN FALSE
    ELSE IF a[1] # b[1] THEN a[1] < b[1]
    ELSE LexLess(Tail(a), Tail(b))

\* the comparison of Array.prototype.sort() on two names with the same prefix
NameLess(f, g) ==
    \/ LexLess(f.idx, g.idx)
    \/ f.idx = g.idx /\ ExtOrder(f.ext) < ExtOrder(g.ext)

\* Array.prototype.sort() with the default (string) comparison
RECURSIVE SortNames(_)
SortNames(S) ==
    IF S = {} THEN <<>>
    ELSE LET m == CHOOSE f \in S : \A g \in S \ {f} : NameLess(f, g)
         IN  <<m>> \o SortNames(S \ {m})

----------------------------------------------------------------------------
(* Inputs *)

Runs == {1, 2}

\* files the caller keeps on disk before any run starts
UserFiles == {UserFile("track", "mp3")}

\* file name carried by an in-memory (base64) payload
PayloadName == [stem |-> "track", ext |-> "mp3"]
PayloadMimeType == "audio/mpeg"

\* What is the same for every item of a run: the node parameters, and how
\* the host hands over binary data (binaryMode: in memory as base64, or as a
\* reference to a file it stored).  With binary input the delete-original
\* parameter is left set: the code must ignore it.
RunParams ==
    {[inputType |-> id[1], deleteOriginal |-> id[2], binaryMode |-> id[3],
      chunkSizeMB |-> Fin(10, 1), outputPrefix |-> "segment",
      outputFormat |-> fm[1], memoryManagement |-> fm[2]] :
        id \in {<<"binaryData", TRUE, "base64">>,
                 <<"binaryData", TRUE, "fileRef">>,
                 <<"filePath", TRUE, "">>, <<"filePath", FALSE, "">>},
        fm \in {<<"same", "standard">>, <<"wav", "lowMemory">>}}

\* what an item carries: for binary input, no binary property ("missing"), a
\* property that references a file stored by the host ("fileRef"), one with
\* base64 data ("base64"), one with neither ("unusable"); for file path
\* input, a path in the named field ("value") or nothing ("none")
ItemShapes(params) ==
    IF params.inputType = "binaryData"
    THEN {"missing", "unusable", params.binaryMode}
    ELSE {"value", "none"}

\* what the probe finds for a source file: metadata.format as ffprobe
\* reports it, and the byte size fs.statSync reports
RunMetas ==
    {[duration |-> Fin(100, 1), bit_rate |-> Fin(128000, 1),
      size |-> Fin(10000000, 1)],
     [duration |-> Absent, bit_rate |-> Fin(128000, 1),
      size |-> Fin(10000000, 1)],
     [duration |-> Absent, bit_rate |-> Absent, size |-> Zero]}

\* segment numbers within 000..999 around the places where the number of
\* digits changes, and the sets of them a scratch directory can hold
SortIndices == {0, 1, 2, 9, 10, 11, 99, 100, 101, 999}
SortIndexSets == {S \in SUBSET SortIndices : Cardinality(S) <= MaxSortSet}

\* byte sizes of segment files
SegSizes == {Fin(1048576, 1)}

PlanDurations == {Absent, Zero, Fin(60, 1), Fin(100, 1), Fin(119, 2)}
PlanBitrates ==
    {Absent, Zero, Fin(128000, 1), Fin(1000000, 1), Fin(100000000, 1)}
PlanSizes == {Absent, Zero, Fin(5, 1), Fin(10000000, 1)}
PlanChunkSizes == {Zero, Fin(1, 10), One, Fin(10, 1)}

----------------------------------------------------------------------------
(* State *)

NoPlan ==
    [done |-> TRUE,
     meta |-> [duration |-> Absent, bit_rate |-> Absent], stat |-> Absent,
     chunkSizeMB |-> Zero, ok |-> FALSE, bitrate |-> NaN, chunkDur |-> NaN]

NoParams ==
    [inputType |-> "", deleteOriginal |-> FALSE, binaryMode |-> "",
     chunkSizeMB |-> Zero,
     outputPrefix |-> "", outputFormat |-> "", memoryManagement |-> ""]

NoBase == [tmpTs |-> 0 - 1, stem |-> ""]

\* the locals of one iteration of the item loop, before the iteration starts
ItemLocals ==
    [item |-> "", filePath |-> NoPath, hasData |-> FALSE,
     shouldCleanupInputFile |-> FALSE, tempFilesToCleanup |-> <<>>,
     tmpDir |-> NoPath, fileBaseName |-> NoBase, fileExtension |-> "",
     outputExtension |-> "", metaDuration |-> Absent, bitrate |-> NaN,
     chunkDurationSeconds |-> NaN, chunkFiles |-> <<>>, warns |-> 0,
     inputUnlinked |-> FALSE]

RunState(pc, params, n) ==
    [pc |-> pc, params |-> params, nItems |-> n, itemIndex |-> 0,
     returnData |-> <<>>, result |-> <<>>, err |-> "", faults |-> 0,
     nAvail |-> 0, nParams |-> 0, nProbe |-> 0, nEngine |-> 0,
     loc |-> ItemLocals]

Idle == RunState("idle", NoParams, 0)

Init ==
    /\ \E params \in RunParams, n \in 0..MaxItems :
          rs = [r \in Runs |-> IF r = 1 THEN RunState("start", params, n)
                                ELSE Idle]
    /\ fs = UserFiles
    /\ now = 0
    /\ plan = NoPlan

Min(a, b) == IF a < b THEN a ELSE b

\* values Date.now() can return at the next call
DateNow == now..Min(now + 1, MaxClock)

Throw(r, e) == rs' = [rs EXCEPT ![r].pc = "thrown", ![r].err = e]

----------------------------------------------------------------------------
(* SplitAudio.execute, one action per await *)

\* the availability check with its failure swallowed
CheckFfmpegSwallowed(r) ==
    /\ rs[r].pc = "start"
    /\ \E available \in BOOLEAN :
          rs' = [rs EXCEPT ![r].nAvail = @ + 1,
                           ![r].pc = "loop",
                           ![r].err = IF available THEN "" ELSE "EngineUnavailable"]
    /\ UNCHANGED <<fs, now, plan>>

\* await execPromise('ffmpeg -version')
CheckFfmpeg(r) ==
    /\ rs[r].pc = "start"
    /\ \E available \in BOOLEAN :
          rs' = [rs EXCEPT ![r].nAvail = @ + 1,
                           ![r].pc = IF available THEN "loop" ELSE "thrown",
                           ![r].err = IF available THEN "" ELSE "EngineUnavailable"]
    /\ UNCHANGED <<fs, now, plan>>

\* the for loop's exit: return [returnData]
Return(r) ==
    /\ rs[r].pc = "loop"
    /\ rs[r].itemIndex >= rs[r].nItems
    /\ rs' = [rs EXCEPT ![r].pc = "returned", ![r].result = rs[r].returnData]
    /\ UNCHANGED <<fs, now, plan>>

\* One iteration up to the try block: the parameters of the item are read and
\* the path of its input file is determined (a base64 payload is written to
\* a temporary file, a path given by the caller is checked for access).
ResolveInput(r) ==
    LET s == rs[r]
        inputType == s.params.inputType
        deleteOriginal ==
            IF inputType = "filePath" THEN s.params.deleteOriginal ELSE FALSE
        read == [s EXCEPT !.nParams = @ + 1, !.loc = ItemLocals]
    IN
    /\ s.pc = "loop"
    /\ s.itemIndex < s.nItems
    /\ \E shape \in ItemShapes(s.params) :
        \/ /\ shape \in {"missing", "none"}
           /\ rs' = [rs EXCEPT ![r] = [read EXCEPT !.loc.item = shape,
                                        !.pc = "thrown", !.err = "NoSourceData"]]
           /\ UNCHANGED <<fs, now>>
        \/ /\ shape = "unusable"
           /\ rs' = [rs EXCEPT ![r] = [read EXCEPT !.loc.item = shape,
                                        !.pc = "thrown", !.err = "NoUsableData"]]
           /\ UNCHANGED <<fs, now>>
        \/ /\ shape = "fileRef"
           /\ \E src \in UserFiles :
                rs' = [rs EXCEPT ![r] = [read EXCEPT !.loc.item = shape,
                                          !.loc.filePath = src, !.pc = "mkdir"]]
           /\ UNCHANGED <<fs, now>>
        \/ /\ shape = "base64"
           /\ \E t \in DateNow :
                LET tempFile == TempInputFile(t, PayloadName.stem, PayloadName.ext)
                IN  /\ now' = t
                    /\ fs' = fs \cup {tempFile}
                    /\ rs' = [rs EXCEPT ![r] = [read EXCEPT !.loc.item = shape,
                                  !.loc.filePath = tempFile,
                                  !.loc.hasData = TRUE, !.pc = "mkdir"]]
        \/ /\ shape = "value"
           /\ \E src \in UserFiles :
                rs' = [rs EXCEPT ![r] =
                         IF src \in fs
                         THEN [read EXCEPT !.loc.item = shape,
                                           !.loc.filePath = src, !.pc = "mkdir"]
                         ELSE [read EXCEPT !.loc.item = shape,
                                           !.loc.filePath = src, !.pc = "thrown",
                                           !.err = "FilesystemAccessError"]]
           /\ UNCHANGED <<fs, now>>
    /\ UNCHANGED plan

\* try { ... await fs.promises.mkdir(tmpDir, { recursive: true })
Mkdir(r) ==
    LET s == rs[r]
        inputType == s.params.inputType
        created == s.loc.filePath # NoPath /\ inputType = "binaryData" /\ s.loc.hasData
        fileInfo == PathParse(s.loc.filePath)
        fileExtension == ToLowerCase(fileInfo.ext)
    IN
    /\ s.pc = "mkdir"
    /\ \E t \in DateNow :
         /\ now' = t
         /\ fs' = fs \cup {ScratchDir(t)}
         /\ rs' = [rs EXCEPT ![r].pc = "probe",
               ![r].loc.tempFilesToCleanup =
                    IF created THEN <<s.loc.filePath>> ELSE <<>>,
               ![r].loc.shouldCleanupInputFile = created,
               ![r].loc.tmpDir = ScratchDir(t),
               ![r].loc.fileBaseName =
                    [tmpTs |-> fileInfo.tmpTs, stem |-> fileInfo.stem],
               ![r].loc.fileExtension = fileExtension,
               ![r].loc.outputExtension =
                    IF s.params.outputFormat # "same"
                    THEN s.params.outputFormat ELSE fileExtension]
    /\ UNCHANGED plan

\* const { bitrate } = await getMediaInfo(), and the segment duration
\* computed from it
Probe(r) ==
    LET s == rs[r] IN
    /\ s.pc = "probe"
    /\ \/ /\ Throw(r, "ProbeError")
       \/ /\ s.loc.filePath \in fs
          /\ \E meta \in RunMetas :
               LET info == SplitPlan(meta, meta.size, s.params.chunkSizeMB) IN
               rs' = [rs EXCEPT ![r] =
                   IF info.ok
                   THEN [s EXCEPT !.pc = "ffmpeg", !.nProbe = @ + 1,
                            !.loc.metaDuration = meta.duration,
                            !.loc.bitrate = info.bitrate,
                            !.loc.chunkDurationSeconds = info.chunkDur]
                   ELSE [s EXCEPT !.pc = "thrown", !.nProbe = @ + 1,
                            !.err = "ProbeError"]]
    /\ UNCHANGED <<fs, now, plan>>

\* The external engine: ffmpeg -f segment -segment_time <chunkDurationSeconds>
\* ... <outputPattern>.  On success it has written the segments of one of the
\* index sets; a run that ends in an error may have written some segments
\* already.
FfmpegWrites(r, indexSets) ==
    LET s == rs[r]
        seg(i) == SegmentPath(s.loc.tmpDir, s.loc.fileBaseName,
                              s.params.outputPrefix, i, s.loc.outputExtension)
        usable == s.loc.filePath \in fs /\ s.loc.tmpDir \in fs
    IN
    /\ s.pc = "ffmpeg"
    /\ \/ /\ usable
          /\ \E written \in indexSets :
                fs' = fs \cup {seg(i) : i \in written}
          /\ rs' = [rs EXCEPT ![r].pc = "readdir", ![r].nEngine = @ + 1]
       \/ /\ \E n \in (IF usable THEN 0..1 ELSE {0}) :
                fs' = fs \cup {seg(i) : i \in 0..(n - 1)}
          /\ rs' = [rs EXCEPT ![r].pc = "thrown", ![r].nEngine = @ + 1,
                              ![r].err = "EngineExecutionError"]
    /\ UNCHANGED <<now, plan>>

\* the engine as it numbers segments: 000 .. n-1
Ffmpeg(r) == FfmpegWrites(r, {0..(n - 1) : n \in 0..MaxSegs})

\* the engine leaving any of the index sets of SortIndexSets
FfmpegAnyIndices(r) == FfmpegWrites(r, SortIndexSets)

\* tempFilesToCleanup.push(tmpDir), reached when the loop over chunkFiles ends
EndOfChunks(loc) ==
    [loc EXCEPT !.tempFilesToCleanup = Append(@, loc.tmpDir)]

\* a listing that runs the engine again when nothing matched
ReaddirRetrying(r) ==
    LET s == rs[r]
        names == {f \in FilesIn(fs, s.loc.tmpDir) :
                     StartsWith(f, s.loc.fileBaseName, s.params.outputPrefix)}
        chunkFiles == SortNames(names)
    IN
    /\ s.pc = "readdir"
    /\ IF s.loc.tmpDir \notin fs
       THEN Throw(r, "ReadError")
       ELSE IF chunkFiles = <<>>
       THEN rs' = [rs EXCEPT ![r].pc = "ffmpeg"]
       ELSE rs' = [rs EXCEPT ![r].pc = "collect", ![r].loc.chunkFiles = chunkFiles]
    /\ UNCHANGED <<fs, now, plan>>

\* (await fs.promises.readdir(tmpDir)).filter(...).sort()
Readdir(r) ==
    LET s == rs[r]
        names == {f \in FilesIn(fs, s.loc.tmpDir) :
                     StartsWith(f, s.loc.fileBaseName, s.params.outputPrefix)}
        chunkFiles == SortNames(names)
    IN
    /\ s.pc = "readdir"
    /\ IF s.loc.tmpDir \notin fs
       THEN Throw(r, "ReadError")
       ELSE IF chunkFiles = <<>>
       THEN rs' = [rs EXCEPT ![r].pc = "cleanup", ![r].loc = EndOfChunks(s.loc)]
       ELSE rs' = [rs EXCEPT ![r].pc = "collect", ![r].loc.chunkFiles = chunkFiles]
    /\ UNCHANGED <<fs, now, plan>>

\* the bytes the engine wrote into a segment file: a few bytes standing for
\* the audio, of a length and a value that depend on the segment number
SegmentBytes(chunkFile) ==
    LET i == FromDigits(chunkFile.idx)
    IN  [k \in 1..((3 + i) % 5) |-> (i + k) % 256]

\* a stream that never delivers a short final piece
StreamChunksTruncated(content) ==
    [k \in 1..(Len(content) \div MaxStreamChunk) |->
        SubSeq(content, (k - 1) * MaxStreamChunk + 1, k * MaxStreamChunk)]

\* the 'data' events of fs.createReadStream: the content in pieces of at
\* most MaxStreamChunk bytes, in file order
RECURSIVE StreamChunks(_)
StreamChunks(content) ==
    IF content = <<>>
    THEN <<>>
    ELSE LET n == Min(MaxStreamChunk, Len(content))
         IN  <<SubSeq(content, 1, n)>>
                 \o StreamChunks(SubSeq(content, n + 1, Len(content)))

\* Buffer.concat
RECURSIVE BufferConcat(_)
BufferConcat(chunks) ==
    IF chunks = <<>> THEN <<>> ELSE Head(chunks) \o BufferConcat(Tail(chunks))

\* the low-memory read: collect the pieces, concatenate at 'end'
CreateBinaryDataFromStream(content) == BufferConcat(StreamChunks(content))

\* fs.promises.readFile: the whole content at once
ReadFile(content) == content

\* mimeType: '' unless the item came as a binary payload
MimeType(s) ==
    IF s.params.inputType = "binaryData" THEN PayloadMimeType ELSE ""

\* the file name of a chunk file, as listed by readdir
ChunkName(chunkFile) ==
    [tmpTs |-> chunkFile.tmpTs, stem |-> chunkFile.stem,
     prefix |-> chunkFile.prefix, idx |-> chunkFile.idx,
     ext |-> chunkFile.ext]

\* helpers.prepareBinaryData(buffer, fileName, mimeType)
PrepareBinaryData(buffer, fileName, mimeType) ==
    [data |-> buffer, fileName |-> fileName, mimeType |-> mimeType]

\* the record the low-memory branch pushes
ChunkRecordLowMemory(s, chunkFile, fileSize) ==
    [item |-> s.itemIndex,
     filename |-> ChunkName(chunkFile),
     size |-> fileSize,
     sizeInMB |-> JsDiv(fileSize, Fin(1024 * 1024, 1)),
     originalFile |-> [tmpTs |-> s.loc.fileBaseName.tmpTs,
                       stem |-> s.loc.fileBaseName.stem,
                       ext |-> s.loc.fileExtension],
     duration |-> s.loc.chunkDurationSeconds,
     binary |-> PrepareBinaryData(
                    CreateBinaryDataFromStream(SegmentBytes(chunkFile)),
                    ChunkName(chunkFile), MimeType(s))]

\* the record the standard branch pushes
ChunkRecordStandard(s, chunkFile, fileSize) ==
    [item |-> s.itemIndex,
     filename |-> ChunkName(chunkFile),
     size |-> fileSize,
     sizeInMB |-> JsDiv(fileSize, Fin(1024 * 1024, 1)),
     originalFile |-> [tmpTs |-> s.loc.fileBaseName.tmpTs,
                       stem |-> s.loc.fileBaseName.stem,
                       ext |-> s.loc.fileExtension],
     duration |-> s.loc.chunkDurationSeconds,
     binary |-> PrepareBinaryData(ReadFile(SegmentBytes(chunkFile)),
                                  ChunkName(chunkFile), MimeType(s))]

\* the record pushed to returnData for one chunk file
ChunkRecord(s, chunkFile, fileSize) ==
    IF s.params.memoryManagement = "lowMemory"
    THEN ChunkRecordLowMemory(s, chunkFile, fileSize)
    ELSE ChunkRecordStandard(s, chunkFile, fileSize)

\* One iteration of the loop over chunkFiles: stat, read (whole or streamed),
\* push the record, remember the path for cleanup.
Collect(r) ==
    LET s == rs[r]
        chunkPath == Head(s.loc.chunkFiles)
        rest == Tail(s.loc.chunkFiles)
    IN
    /\ s.pc = "collect"
    /\ \/ /\ chunkPath \in fs
          /\ \E fileSize \in SegSizes :
               LET pushed == [s.loc EXCEPT !.chunkFiles = rest,
                                 !.tempFilesToCleanup = Append(@, chunkPath)]
               IN rs' = [rs EXCEPT
                     ![r].returnData = Append(@, ChunkRecord(s, chunkPath, fileSize)),
                     ![r].pc = IF rest = <<>> THEN "cleanup" ELSE "collect",
                     ![r].loc = IF rest = <<>> THEN EndOfChunks(pushed) ELSE pushed]
       \/ Throw(r, "ReadError")
    /\ UNCHANGED <<fs, now, plan>>

\* a removal that leaves directories in place
RemoveFilesOnly(files, tempFile) ==
    IF tempFile.kind = "dir" THEN files ELSE files \ {tempFile}

\* what a successful removal of one entry of tempFilesToCleanup leaves on
\* disk: rmdir recursive for a directory, unlink for a file
Remove(files, tempFile) ==
    IF tempFile.kind = "dir"
    THEN files \ ({tempFile} \cup FilesIn(files, tempFile))
    ELSE files \ {tempFile}

\* the cleanup loop without its try/catch: a failed removal is thrown
CleanupEscalating(r) ==
    LET s == rs[r]
        tempFile == Head(s.loc.tempFilesToCleanup)
        rest == Tail(s.loc.tempFilesToCleanup)
        nextPc == IF rest = <<>> THEN "cleanupInput" ELSE "cleanup"
    IN
    /\ s.pc = "cleanup"
    /\ \/ /\ tempFile \in fs
          /\ fs' = Remove(fs, tempFile)
          /\ rs' = [rs EXCEPT ![r].pc = nextPc,
                              ![r].loc.tempFilesToCleanup = rest]
       \/ /\ tempFile \notin fs \/ s.faults < MaxFaults
          /\ fs' = fs
          /\ rs' = [rs EXCEPT ![r].pc = "thrown", ![r].err = "CleanupError",
                              ![r].faults = IF tempFile \in fs THEN @ + 1 ELSE @]
    /\ UNCHANGED <<now, plan>>

\* One iteration of the loop over tempFilesToCleanup.  stat throws when the
\* path is gone; rmdir and unlink can fail; either way a warning is logged.
Cleanup(r) ==
    LET s == rs[r]
        tempFile == Head(s.loc.tempFilesToCleanup)
        rest == Tail(s.loc.tempFilesToCleanup)
        nextPc == IF rest = <<>> THEN "cleanupInput" ELSE "cleanup"
    IN
    /\ s.pc = "cleanup"
    /\ \/ /\ tempFile \in fs
          /\ fs' = Remove(fs, tempFile)
          /\ rs' = [rs EXCEPT ![r].pc = nextPc,
                              ![r].loc.tempFilesToCleanup = rest]
       \/ /\ tempFile \notin fs \/ s.faults < MaxFaults
          /\ fs' = fs
          /\ rs' = [rs EXCEPT ![r].pc = nextPc,
                              ![r].loc.tempFilesToCleanup = rest,
                              ![r].loc.warns = @ + 1,
                              ![r].faults = IF tempFile \in fs THEN @ + 1 ELSE @]
    /\ UNCHANGED <<now, plan>>

\* the condition without the delete-original option
DeletesInputAlways(shouldCleanupInputFile, isUserProvidedFile, deleteOriginal) ==
    shouldCleanupInputFile \/ isUserProvidedFile

\* the condition under which the input file is unlinked after the cleanup loop
DeletesInput(shouldCleanupInputFile, isUserProvidedFile, deleteOriginal) ==
    shouldCleanupInputFile \/ (isUserProvidedFile /\ deleteOriginal)

\* Cleanup input file based on settings, then the next iteration
CleanupInput(r) ==
    LET s == rs[r]
        isUserProvidedFile == s.params.inputType = "filePath"
        deleteOriginal ==
            IF s.params.inputType = "filePath" THEN s.params.deleteOriginal
            ELSE FALSE
        filePath == s.loc.filePath
        next == [s EXCEPT !.pc = "loop", !.itemIndex = @ + 1]
    IN
    /\ s.pc = "cleanupInput"
    /\ IF DeletesInput(s.loc.shouldCleanupInputFile, isUserProvidedFile,
                       deleteOriginal)
       THEN \/ /\ filePath \in fs
               /\ fs' = fs \ {filePath}
               /\ rs' = [rs EXCEPT ![r] = [next EXCEPT !.loc.inputUnlinked = TRUE]]
            \/ /\ filePath \notin fs \/ s.faults < MaxFaults
               /\ fs' = fs
               /\ rs' = [rs EXCEPT ![r] =
                     [next EXCEPT !.loc.warns = @ + 1,
                          !.faults = IF filePath \in fs THEN @ + 1 ELSE @]]
       ELSE /\ fs' = fs
            /\ rs' = [rs EXCEPT ![r] = next]
    /\ UNCHANGED <<now, plan>>

----------------------------------------------------------------------------
(* Specifications *)

Step(r) ==
    \/ CheckFfmpeg(r)
    \/ ResolveInput(r)
    \/ Mkdir(r)
    \/ Probe(r)
    \/ Ffmpeg(r)
    \/ Readdir(r)
    \/ Collect(r)
    \/ Cleanup(r)
    \/ CleanupInput(r)
    \/ Return(r)

Next == \E r \in {1} : Step(r)

Spec == Init /\ [][Next]_vars

\* The listing order on its own: one item, and an engine that leaves segment
\* files with any numbers of SortIndices.
InitSort ==
    /\ \E params \in RunParams :
          rs = [r \in Runs |-> IF r = 1 THEN RunState("start", params, 1)
                                ELSE Idle]
    /\ fs = UserFiles
    /\ now = 0
    /\ plan = NoPlan

StepSort(r) ==
    \/ CheckFfmpeg(r)
    \/ ResolveInput(r)
    \/ Mkdir(r)
    \/ Probe(r)
    \/ FfmpegAnyIndices(r)
    \/ Readdir(r)
    \/ Collect(r)
    \/ Cleanup(r)
    \/ CleanupInput(r)
    \/ Return(r)

NextSort == \E r \in {1} : StepSort(r)

SpecSort == InitSort /\ [][NextSort]_vars

\* Two executions of the node at once on one host: each run has one item,
\* read from the same path and kept, both share os.tmpdir() and the clock,
\* and their awaits interleave freely.
InitTwo ==
    /\ \E params \in {p \in RunParams : p.inputType = "filePath" /\ ~p.deleteOriginal} :
          rs = [r \in Runs |-> RunState("start", params, 1)]
    /\ fs = UserFiles
    /\ now = 0
    /\ plan = NoPlan

NextTwo == \E r \in Runs : Step(r)

SpecTwo == InitTwo /\ [][NextTwo]_vars

\* The split plan on its own: the inputs of getMediaInfo and of the segment
\* duration are drawn from the Plan* sets and the plan is computed once.
InitPlan ==
    /\ rs = [r \in Runs |-> Idle]
    /\ fs = UserFiles
    /\ now = 0
    /\ \E d \in PlanDurations, b \in PlanBitrates, sz \in PlanSizes,
          c \in PlanChunkSizes :
          plan = [NoPlan EXCEPT !.done = FALSE,
                                !.meta = [duration |-> d, bit_rate |-> b],
                                !.stat = sz, !.chunkSizeMB = c]

ComputePlan ==
    LET p == SplitPlan(plan.meta, plan.stat, plan.chunkSizeMB) IN
    /\ ~plan.done
    /\ plan' = [plan EXCEPT !.done = TRUE, !.ok = p.ok, !.bitrate = p.bitrate,
                            !.chunkDur = p.chunkDur]
    /\ UNCHANGED <<rs, fs, now>>

NextPlan == ComputePlan

SpecPlan == InitPlan /\ [][NextPlan]_vars

----------------------------------------------------------------------------
(* Properties *)

\* the run has left execute(), by return or by a thrown error
Finished(r) == rs[r].pc \in {"returned", "thrown"}

\* the current item has got past its probe
PastProbe(r) ==
    rs[r].pc \in {"ffmpeg", "readdir", "collect", "cleanup", "cleanupInput"}

\* the engine has been invoked for the current item
EngineInvoked(r) ==
    \/ rs[r].pc \in {"readdir", "collect", "cleanup", "cleanupInput"}
    \/ rs[r].pc = "thrown" /\ rs[r].err = "EngineExecutionError"

\* the iteration for the last item read ran to its end
ItemSucceeded(r) ==
    /\ rs[r].pc \in {"loop", "returned"}
    /\ rs[r].itemIndex > 0

\* the scratch directory of the last item read, and everything in it, is gone
ScratchGone(r) ==
    /\ rs[r].loc.tmpDir \notin fs
    /\ FilesIn(fs, rs[r].loc.tmpDir) = {}

\* x is a finite number, at least 1
AtLeastOne(x) == x.k = "fin" /\ x.n >= x.d

\* x = max(1, chunkSizeMB * 1024 * 1024 * 8 / bitrate), for a positive
\* integer bitrate and a chunk size c.n / c.d
IsClampedQuotient(x, c, bitrate) ==
    LET bits == c.n * 8388608
        rate == c.d * bitrate
    IN  IF bits >= rate
        THEN /\ x.k = "fin"
             /\ rate % x.d = 0
             /\ (rate \div x.d) * x.n = bits
        ELSE x = One

\* C1: whenever an item has created its scratch directory and then fails
\* (probe failure, engine error, read error), the scratch directory and every
\* file in it are gone when execute() finishes.
C1_ScratchReleasedOnFailure ==
    \A r \in Runs :
        (rs[r].pc = "thrown" /\ rs[r].loc.tmpDir # NoPath) => ScratchGone(r)

\* C2: after a successful split of an item in a run in which no deletion
\* failed, the scratch directory and every segment file in it are gone; and a
\* cleanup step never raises, also on a path that is already gone.
C2_CleanupComplete ==
    /\ [](\A r \in Runs :
            (ItemSucceeded(r) /\ rs[r].loc.tmpDir # NoPath /\ rs[r].faults = 0)
                => ScratchGone(r))
    /\ [][\A r \in Runs :
            rs[r].pc \in {"cleanup", "cleanupInput"} => rs'[r].pc # "thrown"]_vars

\* a cleanup step ran on a path that was already gone (a warning without a
\* failed deletion) and the item ended with its scratch directory removed
C2_Witness ==
    \E r \in Runs :
        /\ ItemSucceeded(r)
        /\ rs[r].loc.tmpDir # NoPath
        /\ rs[r].faults = 0
        /\ rs[r].loc.warns > 0
        /\ rs[r].returnData # <<>>

\* C3: a per-item failure does not abort the run: when execute() finishes
\* without the engine being unavailable, every item has been attempted and the
\* result holds the records of every item that succeeded.
C3_FailureIsolated ==
    \A r \in Runs :
        (Finished(r) /\ rs[r].err # "EngineUnavailable")
            => /\ rs[r].nParams = rs[r].nItems
               /\ rs[r].result = rs[r].returnData

\* C4: the availability check runs exactly once per run, and when it fails
\* nothing has been read, created, probed, run or emitted.
C4_UnavailableIsFatal ==
    \A r \in Runs :
        /\ rs[r].nAvail <= 1
        /\ rs[r].pc \notin {"idle", "start"} => rs[r].nAvail = 1
        /\ rs[r].err = "EngineUnavailable"
              => /\ rs[r].pc = "thrown"
                 /\ rs[r].nParams = 0
                 /\ rs[r].nProbe = 0
                 /\ rs[r].nEngine = 0
                 /\ rs[r].loc = ItemLocals
                 /\ rs[r].returnData = <<>>
                 /\ rs[r].result = <<>>
                 /\ fs = UserFiles

C4_Witness ==
    \E r \in Runs :
        /\ rs[r].pc = "thrown"
        /\ rs[r].err = "EngineUnavailable"
        /\ rs[r].nItems = MaxItems

\* C5: for a positive bitrate and a positive chunk size the segment duration
\* is max(1, chunkSizeMB*1024*1024*8/bitrate): 655.36 for 128000 and 10 MB,
\* 8.388608 for 1000000 and 1 MB, exactly 1 when the quotient is below 1.
C5_ChunkDuration ==
    (plan.done /\ plan.ok /\ plan.bitrate.k = "fin" /\ plan.bitrate.n > 0
        /\ plan.bitrate.d = 1 /\ plan.chunkSizeMB.n > 0)
    => /\ IsClampedQuotient(plan.chunkDur, plan.chunkSizeMB, plan.bitrate.n)
       /\ (plan.bitrate.n = 128000 /\ plan.chunkSizeMB = Fin(10, 1))
             => plan.chunkDur = Fin(16384, 25)
       /\ (plan.bitrate.n = 1000000 /\ plan.chunkSizeMB = One)
             => plan.chunkDur = Fin(131072, 15625)

C5_Witness ==
    /\ plan.done
    /\ plan.ok
    /\ plan.bitrate = Fin(100000000, 1)
    /\ plan.chunkSizeMB = One
    /\ plan.chunkDur = One

\* C6: whenever the engine has been invoked for an item, the segment duration
\* handed to it, and the duration of every emitted record, is a number >= 1.
C6_DurationAtLeastOne ==
    \A r \in Runs :
        /\ EngineInvoked(r) => AtLeastOne(rs[r].loc.chunkDurationSeconds)
        /\ \A i \in 1..Len(rs[r].returnData) :
              AtLeastOne(rs[r].returnData[i].duration)

\* C7: an item whose duration the probe could not determine (absent or zero)
\* does not get past the probe: no plan is derived and the engine is not run.
C7_UnknownDurationFails ==
    \A r \in Runs :
        (PastProbe(r) \/ EngineInvoked(r)) => Truthy(rs[r].loc.metaDuration)

\* C8: the plan's bitrate is the metadata bitrate when that is present and
\* non-zero, whatever the file size and the duration are; otherwise it is
\* size*8/duration rounded to the nearest integer (10,000,000 bytes and 100 s
\* give 800000).
C8_BitrateSource ==
    plan.done =>
        IF Truthy(plan.meta.bit_rate)
        THEN /\ plan.ok
             /\ plan.bitrate = plan.meta.bit_rate
             /\ plan.chunkSizeMB.n > 0 =>
                   IsClampedQuotient(plan.chunkDur, plan.chunkSizeMB,
                                     plan.meta.bit_rate.n)
        ELSE (plan.stat # Absent /\ Truthy(plan.meta.duration)) =>
             LET bits == 8 * plan.stat.n * plan.meta.duration.d
                 secs == plan.meta.duration.n
                 b == plan.bitrate
             IN  /\ plan.ok
                 /\ b.k = "fin" /\ b.d = 1
                 /\ 2 * b.n * secs <= 2 * bits + secs
                 /\ 2 * bits + secs < 2 * (b.n + 1) * secs
                 /\ (plan.stat = Fin(10000000, 1) /\ plan.meta.duration = Fin(100, 1))
                       => b = Fin(800000, 1)

C8_Witness ==
    /\ plan.done
    /\ plan.meta.bit_rate = Absent
    /\ plan.stat = Fin(10000000, 1)
    /\ plan.meta.duration = Fin(100, 1)
    /\ plan.bitrate = Fin(800000, 1)

\* C9: a file of the caller disappears from disk only in the step that ends
\* the successful processing of an item given by file path with the
\* delete-original option set, that item being this file.
C9_OriginalKept ==
    [][\A f \in UserFiles :
        (f \in fs /\ f \notin fs') =>
            \E r \in Runs :
                /\ rs[r].pc = "cleanupInput"
                /\ rs'[r].pc = "loop"
                /\ rs'[r].itemIndex = rs[r].itemIndex + 1
                /\ rs[r].params.inputType = "filePath"
                /\ rs[r].params.deleteOriginal
                /\ rs[r].loc.filePath = f]_vars

C9_Witness ==
    \E r \in Runs :
        /\ ItemSucceeded(r)
        /\ rs[r].params.inputType = "filePath"
        /\ rs[r].params.deleteOriginal
        /\ rs[r].loc.inputUnlinked
        /\ rs[r].loc.filePath \in UserFiles
        /\ rs[r].loc.filePath \notin fs

\* C10: the temporary input file written for a base64 payload is gone once
\* the processing of its item has ended, by success or by failure, as long as
\* no deletion failed.
C10_TempInputReleased ==
    \A r \in Runs :
        ((Finished(r) \/ ItemSucceeded(r)) /\ rs[r].loc.hasData
            /\ rs[r].faults = 0)
            => rs[r].loc.filePath \notin fs

\* C11: a deletion that fails never fails the operation: a cleanup step never
\* throws, keeps the records collected so far, logs one warning for the failure
\* and goes on to the next deletion; the item ends with every deletion
\* attempted, and a run that returns returns every record collected.
C11_CleanupNeverFails ==
    /\ [](\A r \in Runs :
            /\ ItemSucceeded(r) => rs[r].loc.tempFilesToCleanup = <<>>
            /\ rs[r].pc = "returned" => rs[r].result = rs[r].returnData)
    /\ [][\A r \in Runs :
            rs[r].pc \in {"cleanup", "cleanupInput"} =>
                /\ rs'[r].pc # "thrown"
                /\ rs'[r].returnData = rs[r].returnData
                /\ rs[r].pc = "cleanup" =>
                      /\ rs'[r].pc \in {"cleanup", "cleanupInput"}
                      /\ rs'[r].loc.tempFilesToCleanup =
                            Tail(rs[r].loc.tempFilesToCleanup)
                /\ rs[r].pc = "cleanupInput" => rs'[r].pc = "loop"
                /\ rs'[r].faults > rs[r].faults =>
                      rs'[r].loc.warns = rs[r].loc.warns + 1]_vars

\* a run returned its records although a deletion had failed
C11_Witness ==
    \E r \in Runs :
        /\ rs[r].pc = "returned"
        /\ rs[r].faults > 0
        /\ rs[r].loc.warns > 0
        /\ rs[r].result # <<>>
        /\ rs[r].result = rs[r].returnData

\* the segment number a file name carries
IndexOf(name) == FromDigits(name.idx)

\* C12: the records of one item are emitted in lexicographic order of their
\* file names, and for segment numbers within 000..999 this is ascending
\* numeric order: the record of number i comes before that of number j
\* whenever i < j.
C12_EmittedInIndexOrder ==
    \A r \in Runs :
        \A i, j \in 1..Len(rs[r].returnData) :
            LET a == rs[r].returnData[i]
                b == rs[r].returnData[j]
            IN  (a.item = b.item /\ i < j) =>
                    /\ NameLess(a.filename, b.filename)
                    /\ IndexOf(a.filename) < IndexOf(b.filename)

\* the records of segments 9, 10 and 100 were emitted in this order
C12_Witness ==
    \E r \in Runs :
        /\ Len(rs[r].returnData) = 3
        /\ IndexOf(rs[r].returnData[1].filename) = 9
        /\ IndexOf(rs[r].returnData[2].filename) = 10
        /\ IndexOf(rs[r].returnData[3].filename) = 100

\* ---------------------------------------------------------------------
\* C13: low-memory mode and standard mode are observationally equivalent.
\* Whenever a record is pushed, in either mode, it is the record the
\* standard branch builds and also the record the low-memory branch builds
\* from the same item, configuration and segment file: same filename, size,
\* sizeInMB, originalFile, duration, attachment bytes (the whole content of
\* the segment file), attachment filename and MIME type. The step leaves
\* the disk as it was and queues the segment file for removal, whatever the
\* mode; a step that fails instead pushes nothing in either mode.
C13_ModesEquivalent ==
    [][\A r \in Runs :
          rs[r].pc = "collect" =>
              LET s == rs[r]
                  f == Head(s.loc.chunkFiles)
                  out == rs'[r].returnData
              IN  /\ fs' = fs
                  /\ \/ /\ rs'[r].pc = "thrown"
                        /\ out = s.returnData
                     \/ /\ rs'[r].pc \in {"collect", "cleanup"}
                        /\ Len(out) = Len(s.returnData) + 1
                        /\ SubSeq(out, 1, Len(s.returnData)) = s.returnData
                        /\ LET rec == out[Len(out)]
                           IN  /\ rec = ChunkRecordStandard(s, f, rec.size)
                               /\ rec = ChunkRecordLowMemory(s, f, rec.size)
                               /\ rec.binary.data = SegmentBytes(f)
                               /\ rec.binary.fileName = rec.filename
                        /\ SubSeq(rs'[r].loc.tempFilesToCleanup, 1,
                                  Len(s.loc.tempFilesToCleanup) + 1) =
                               Append(s.loc.tempFilesToCleanup, f)]_vars

\* a low-memory run returned a record whose attachment was streamed in a
\* full piece followed by a short one
C13_Witness ==
    \E r \in Runs :
        /\ rs[r].pc = "returned"
        /\ rs[r].params.memoryManagement = "lowMemory"
        /\ rs[r].result # <<>>
        /\ Len(rs[r].result[1].binary.data) = MaxStreamChunk + 1

\* the item of run r holds a scratch directory: created, not yet released
UsesScratch(r) ==
    rs[r].pc \in {"probe", "ffmpeg", "readdir", "collect", "cleanup"}

\* ---------------------------------------------------------------------
\* C14: each invocation owns its scratch directory exclusively: two item
\* processings that hold a scratch directory at the same time, here the
\* items of two concurrent runs, never hold the same one, and every record
\* a run has collected names a file of its own directory only.
C14_ScratchExclusive ==
    \A r1, r2 \in Runs :
        (r1 # r2 /\ UsesScratch(r1) /\ UsesScratch(r2)) =>
            rs[r1].loc.tmpDir # rs[r2].loc.tmpDir

\* the name of the source media as the caller supplied it: every source of
\* the model, a file on disk or a payload, is named PayloadName; -1 says that
\* nothing precedes the stem
SuppliedName == [tmpTs |-> 0 - 1, stem |-> PayloadName.stem, ext |-> PayloadName.ext]

\* ---------------------------------------------------------------------
\* C15: every emitted record names its source faithfully: the filename is
\* {baseName}_{outputPrefix}_{3-digit index}{outputExtension} and
\* originalFile is {baseName}{original extension}, with the base name and
\* the extension of the source the caller supplied, for a path input and
\* for a payload carrying a filename alike; the output extension is the
\* source extension when the output format is 'same'.
C15_NamesSource ==
    \A r \in Runs :
        \A i \in 1..Len(rs[r].returnData) :
            LET rec == rs[r].returnData[i]
                p == rs[r].params
            IN  /\ rec.filename.tmpTs = SuppliedName.tmpTs
                /\ rec.filename.stem = SuppliedName.stem
                /\ rec.filename.prefix = p.outputPrefix
                /\ Len(rec.filename.idx) = 3
                /\ rec.filename.ext =
                       IF p.outputFormat = "same" THEN SuppliedName.ext
                       ELSE p.outputFormat
                /\ rec.originalFile = SuppliedName

\* ---------------------------------------------------------------------
\* C16: items are processed strictly one at a time, in input order. The
\* engine (and the probe) runs at most once per item; the probe and the
\* engine of an item start only when every earlier item has emitted all its
\* records and its cleanup loop has run through, and no record of the item
\* itself exists yet; records are only ever appended, for the item being
\* processed, so every record of item i precedes every record of item j
\* when i < j.
C16_OneItemAtATime ==
    /\ [](\A r \in Runs :
            LET s == rs[r]
            IN  /\ \A i, j \in 1..Len(s.returnData) :
                       i < j => s.returnData[i].item <= s.returnData[j].item
                /\ \A i \in 1..Len(s.returnData) :
                       /\ s.returnData[i].item <= s.itemIndex
                       /\ s.pc \in {"loop", "mkdir", "probe", "ffmpeg", "readdir",
                                    "returned"}
                             => s.returnData[i].item < s.itemIndex
                /\ s.nEngine <= s.itemIndex + 1
                /\ s.nProbe <= s.itemIndex + 1
                /\ s.pc \in {"loop", "returned"} =>
                       s.nEngine = s.itemIndex /\ s.nProbe = s.itemIndex)
    /\ [][\A r \in Runs :
            LET s == rs[r]
                t == rs'[r]
            IN  /\ t.itemIndex # s.itemIndex =>
                       /\ s.pc = "cleanupInput"
                       /\ s.loc.tempFilesToCleanup = <<>>
                       /\ t.itemIndex = s.itemIndex + 1
                /\ t.nProbe # s.nProbe =>
                       /\ s.pc = "probe"
                       /\ s.nProbe = s.itemIndex
                       /\ t.nProbe = s.nProbe + 1
                /\ t.nEngine # s.nEngine =>
                       /\ s.pc = "ffmpeg"
                       /\ s.nEngine = s.itemIndex
                       /\ t.nEngine = s.nEngine + 1
                /\ t.returnData # s.returnData =>
                       /\ s.pc = "collect"
                       /\ Len(t.returnData) = Len(s.returnData) + 1
                       /\ SubSeq(t.returnData, 1, Len(s.returnData)) = s.returnData
                       /\ t.returnData[Len(t.returnData)].item = s.itemIndex]_vars

\* a run of two items returned records of both, after two engine calls
C16_Witness ==
    \E r \in Runs :
        /\ rs[r].pc = "returned"
        /\ rs[r].nEngine = 2
        /\ \E i, j \in 1..Len(rs[r].result) :
              rs[r].result[i].item = 0 /\ rs[r].result[j].item = 1

\* ---------------------------------------------------------------------
\* C17: within one item no path is submitted for deletion more than once:
\* as long as no deletion of an existing path has failed in the run, every
\* deletion was of a path still on disk, so no cleanup warning has been
\* logged for the item.
C17_DeletedOnce ==
    \A r \in Runs : rs[r].faults = 0 => rs[r].loc.warns = 0

\* ---------------------------------------------------------------------
\* C18: with file-path input and delete-original set, the caller's original
\* file is deleted only if at least one segment record was emitted for that
\* item: when the iteration has unlinked the original, returnData holds a
\* record of the item just finished.
C18_DeletedOnlyAfterOutput ==
    \A r \in Runs :
        (/\ ItemSucceeded(r)
         /\ rs[r].params.inputType = "filePath"
         /\ rs[r].loc.inputUnlinked) =>
            \E i \in 1..Len(rs[r].returnData) :
                rs[r].returnData[i].item = rs[r].itemIndex - 1

====
